---- MODULE Spec2Model ----
(***************************************************************************)
(* PhaseGaitGenerator (src/src/controllers/phase_gait_generator.py).       *)
(*                                                                         *)
(* Angles are integers in units of 2*pi/TwoPi, so that TwoPi is one full   *)
(* cycle; time is counted in ticks of 1/TicksPerSecond seconds, so that    *)
(* 2*pi*f*dt is the integer PhaseStep(f, dt).  Arithmetic is exact:        *)
(* floating-point rounding is not modelled.  A tensor of shape             *)
(* (num_envs, 4) is a function [Env -> [Leg -> Int]]; leg index 0 of the   *)
(* source is leg 1 here.                                                   *)
(***************************************************************************)
EXTENDS Integers, FiniteSets, Sequences, TLC

\* ---------------------------------------------------------------- bounds
\* the clock stops at MaxTime ticks; the frequencies in use are 1 and MaxFreq
MaxTime == 2
MaxFreq == 3
\* the running loop is followed until cycle_count reaches MaxCycles
MaxCycles == 2

\* ------------------------------------------------------------- constants
NumEnvs == 2
TwoPi == 4
TicksPerSecond == TwoPi
RatioDen == TwoPi

Env == 1..NumEnvs
Leg == 1..4
FreqValues == {1, MaxFreq}
\* the index sets handed to reset_idx
EnvIds == (SUBSET Env) \ {{}}

VARIABLES
  \* gait catalog built by __init__
  pronk_initial_offset,
  pronk_swing_cutoff,
  bound_initial_offset,
  bound_swing_cutoff,
  config_stepping_frequency,
  \* per-environment state
  initial_offset,
  current_phase,
  aliased,
  \* the storage each of _initial_offset, _current_phase and _swing_cutoff
  \* lives in: its own, or that of a catalog tensor
  storage,
  swing_cutoff,
  stepping_frequency,
  prev_frame_robot_time,
  first_stance_seen,
  cycle_count,
  \* the robot's clock
  time_since_reset,
  \* the most recent call on the generator: its name and arguments,
  \* update()'s local true_phase, and the value returned
  last_op,
  update_true_phase,
  ret

catalog == <<pronk_initial_offset, pronk_swing_cutoff, bound_initial_offset,
             bound_swing_cutoff, config_stepping_frequency>>
gait_state == <<initial_offset, current_phase, aliased, storage, swing_cutoff,
                stepping_frequency, prev_frame_robot_time, first_stance_seen,
                cycle_count>>
vars == <<catalog, gait_state, time_since_reset, last_op, update_true_phase, ret>>

\* ------------------------------------------------------- tensor helpers
\* torch.stack([v] * num_envs, dim=0)
Stack(v) == [e \in Env |-> v]

\* torch.where(cond, a, b) with cond of shape (num_envs,) broadcast over legs
Where(cond, a, b) == [e \in Env |-> IF cond[e] THEN a[e] ELSE b[e]]

\* The storage of the tensor torch.where returns, given the storage of the
\* two tensors it selects from ("own": storage of its own, "pronk" and
\* "bound": the storage of that variant's catalog tensor).
\* a select that would hand back an operand itself when every row picks it
WhereStoreView(cond, a_store, b_store) ==
  IF \A e \in Env : cond[e] THEN a_store
  ELSE IF \A e \in Env : ~cond[e] THEN b_store
  ELSE "own"

\* torch.where builds a new tensor, whatever it selects
WhereStore(cond, a_store, b_store) == "own"

\* a slip that would ignore the index and overwrite every row
SetEveryRow(t, env_ids, row) == [e \in Env |-> row]

\* t[env_ids] = row
SetRows(t, env_ids, row) == [e \in Env |-> IF e \in env_ids THEN row ELSE t[e]]

\* The catalog tensor `name` (value old) after an in-place write that
\* leaves value in the tensors living in stores: the write reaches the
\* catalog exactly when one of them lives in the catalog tensor's storage.
WrittenThrough(name, stores, old, value) == IF name \in stores THEN value ELSE old

\* a guard against a zero time step that would floor it at one tick
PhaseStepFloored(f, dt) == (TwoPi * f * (IF dt < 1 THEN 1 ELSE dt)) \div TicksPerSecond

\* 2 * torch.pi * stepping_frequency * delta_t
PhaseStep(f, dt) == (TwoPi * f * dt) \div TicksPerSecond

\* 2 * torch.pi * (1 - swing_ratio), the ratio given in steps of 1/RatioDen
SwingCutoff(ratio) == (TwoPi * (RatioDen - ratio)) \div RatioDen

\* a remainder that would show the wrap instant as 2*pi instead of 0
ModulatedPhaseUpper(phase) == ((phase + TwoPi - 1) % TwoPi) + 1

\* torch.remainder(phase + 2 * torch.pi, 2 * torch.pi)
ModulatedPhase(phase) == (phase + TwoPi) % TwoPi

NoCall == [e \in Env |-> 0]

Op(name) == [name |-> name, env_ids |-> {}]

\* ------------------------------------------------------- configuration
\* gait_config: offsets in angle units, swing ratios in steps of 1/RatioDen
\* (one per leg), the default frequency.  Pronk: all legs in phase, half the
\* cycle in swing.  Bound: the front legs half a cycle ahead and in swing
\* for the whole cycle (cutoff 0), the rear legs never (cutoff 2*pi).
gait_config ==
  [pronk_initial_offset |-> <<0, 0, 0, 0>>, pronk_swing_ratio |-> <<2, 2, 2, 2>>,
   bound_initial_offset |-> <<2, 2, 0, 0>>, bound_swing_ratio |-> <<4, 4, 0, 0>>,
   stepping_frequency |-> MaxFreq]

\* ------------------------------------------------------------- __init__
Init ==
  \E rand_gait \in [Env -> BOOLEAN] :
    /\ pronk_initial_offset = Stack(gait_config.pronk_initial_offset)
    /\ pronk_swing_cutoff = Stack([l \in Leg |-> SwingCutoff(gait_config.pronk_swing_ratio[l])])
    /\ bound_initial_offset = Stack(gait_config.bound_initial_offset)
    /\ bound_swing_cutoff = Stack([l \in Leg |-> SwingCutoff(gait_config.bound_swing_ratio[l])])
    /\ config_stepping_frequency = gait_config.stepping_frequency
    /\ time_since_reset = [e \in Env |-> 0]
    \* self.reset()
    /\ initial_offset = Where(rand_gait, pronk_initial_offset, bound_initial_offset)
    /\ current_phase = initial_offset
    /\ aliased = TRUE
    /\ storage = [offset |-> WhereStore(rand_gait, "pronk", "bound"),
                  phase |-> WhereStore(rand_gait, "pronk", "bound"),
                  cutoff |-> WhereStore(rand_gait, "pronk", "bound")]
    /\ swing_cutoff = Where(rand_gait, pronk_swing_cutoff, bound_swing_cutoff)
    /\ stepping_frequency = [e \in Env |-> config_stepping_frequency]
    /\ prev_frame_robot_time = time_since_reset
    /\ first_stance_seen = [e \in Env |-> [l \in Leg |-> FALSE]]
    /\ cycle_count = [e \in Env |-> 0]
    /\ last_op = Op("reset")
    /\ update_true_phase = NoCall
    /\ ret = "None"

\* ---------------------------------------------------------------- reset
\* Line 44 binds _current_phase to the very tensor _initial_offset names:
\* aliased records that the two names denote one tensor.
reset ==
  \E rand_gait \in [Env -> BOOLEAN] :
    /\ initial_offset' = Where(rand_gait, pronk_initial_offset, bound_initial_offset)
    /\ current_phase' = initial_offset'
    /\ aliased' = TRUE
    /\ storage' = [offset |-> WhereStore(rand_gait, "pronk", "bound"),
                   phase |-> WhereStore(rand_gait, "pronk", "bound"),
                   cutoff |-> WhereStore(rand_gait, "pronk", "bound")]
    /\ swing_cutoff' = Where(rand_gait, pronk_swing_cutoff, bound_swing_cutoff)
    /\ stepping_frequency' = [e \in Env |-> config_stepping_frequency]
    /\ prev_frame_robot_time' = time_since_reset
    /\ first_stance_seen' = [e \in Env |-> [l \in Leg |-> FALSE]]
    /\ cycle_count' = [e \in Env |-> 0]
    /\ last_op' = Op("reset")
    /\ update_true_phase' = NoCall
    /\ ret' = "None"
    /\ UNCHANGED <<catalog, time_since_reset>>

\* ------------------------------------------------------------ reset_idx
\* One draw for the whole call; row 0 of the catalog is written into every
\* listed row, in place (so an aliased pair stays aliased).
ResetIdxOffset(rand_gait) ==
  IF rand_gait THEN pronk_initial_offset[1] ELSE bound_initial_offset[1]

\* a copy-and-paste slip that would pair each offset with the other cutoff
ResetIdxCutoffSwapped(rand_gait) ==
  IF rand_gait THEN bound_swing_cutoff[1] ELSE pronk_swing_cutoff[1]

ResetIdxCutoff(rand_gait) ==
  IF rand_gait THEN pronk_swing_cutoff[1] ELSE bound_swing_cutoff[1]

reset_idx(env_ids) ==
  \E rand_gait \in BOOLEAN :
    /\ initial_offset' = SetRows(initial_offset, env_ids, ResetIdxOffset(rand_gait))
    /\ current_phase' = [e \in Env |-> IF e \in env_ids THEN initial_offset'[e]
                                                        ELSE current_phase[e]]
    /\ swing_cutoff' = SetRows(swing_cutoff, env_ids, ResetIdxCutoff(rand_gait))
    /\ stepping_frequency' = SetRows(stepping_frequency, env_ids, config_stepping_frequency)
    /\ prev_frame_robot_time' = [e \in Env |-> IF e \in env_ids THEN time_since_reset[e]
                                                                ELSE prev_frame_robot_time[e]]
    /\ first_stance_seen' = SetRows(first_stance_seen, env_ids, [l \in Leg |-> FALSE])
    /\ cycle_count' = SetRows(cycle_count, env_ids, 0)
    /\ last_op' = [name |-> "reset_idx", env_ids |-> env_ids]
    /\ update_true_phase' = NoCall
    /\ ret' = "None"
    \* the rows are written in place, into whatever storage the tensors live in
    /\ pronk_initial_offset' =
         WrittenThrough("pronk", {storage.offset, storage.phase}, pronk_initial_offset,
                        SetRows(pronk_initial_offset, env_ids, ResetIdxOffset(rand_gait)))
    /\ bound_initial_offset' =
         WrittenThrough("bound", {storage.offset, storage.phase}, bound_initial_offset,
                        SetRows(bound_initial_offset, env_ids, ResetIdxOffset(rand_gait)))
    /\ pronk_swing_cutoff' =
         WrittenThrough("pronk", {storage.cutoff}, pronk_swing_cutoff,
                        SetRows(pronk_swing_cutoff, env_ids, ResetIdxCutoff(rand_gait)))
    /\ bound_swing_cutoff' =
         WrittenThrough("bound", {storage.cutoff}, bound_swing_cutoff,
                        SetRows(bound_swing_cutoff, env_ids, ResetIdxCutoff(rand_gait)))
    /\ UNCHANGED <<config_stepping_frequency, aliased, storage, time_since_reset>>

\* --------------------------------------------------------------- update
\* Line 75 adds in place: when _current_phase and _initial_offset are one
\* tensor, the offset moves with the phase.
\* a slip that would assign the step from the offset (= for +=)
IntegrateFromOffset(phase, delta_t) ==
  [e \in Env |-> [l \in Leg |->
     initial_offset[e][l] + PhaseStep(stepping_frequency[e], delta_t[e])]]

Integrate(phase, delta_t) ==
  [e \in Env |-> [l \in Leg |-> phase[e][l] + PhaseStep(stepping_frequency[e], delta_t[e])]]

\* a slip that would count the boundary itself as a finished cycle
CycleDoneAtBoundary(true_phase) == true_phase >= TwoPi

\* true_phase > 2 * torch.pi
CycleDone(true_phase) == true_phase > TwoPi

\* a slip that would wrap the phase by one cycle and keep the overshoot
SnapPhaseKeepOvershoot(done, offset, phase) ==
  Where(done, [e \in Env |-> [l \in Leg |-> phase[e][l] - TwoPi]], phase)

\* a slip that would swap the two branches of the select
SnapPhaseSwapped(done, offset, phase) == Where(done, phase, offset)

\* torch.where(stack_true_phase > 2 * pi, self._initial_offset, self._current_phase),
\* evaluated after line 84 has rebound _initial_offset
SnapPhase(done, offset, phase) == Where(done, offset, phase)

update ==
  \E rand_gait \in [Env -> BOOLEAN] :
    LET current_robot_time == time_since_reset
        delta_t == [e \in Env |-> current_robot_time[e] - prev_frame_robot_time[e]]
        phase_1 == Integrate(current_phase, delta_t)
        offset_1 == IF aliased THEN phase_1 ELSE initial_offset
        \* the += of line 75 writes into the storage _current_phase lives in
        pronk_1 == WrittenThrough("pronk", {storage.phase}, pronk_initial_offset, phase_1)
        bound_1 == WrittenThrough("bound", {storage.phase}, bound_initial_offset, phase_1)
        true_phase == [e \in Env |-> phase_1[e][1] - offset_1[e][1]]
        done == [e \in Env |-> CycleDone(true_phase[e])]
        rand_initial_offset == Where(rand_gait, pronk_1, bound_1)
        rand_swing_cutoff == Where(rand_gait, pronk_swing_cutoff, bound_swing_cutoff)
        rand_offset_store == WhereStore(rand_gait, "pronk", "bound")
        rand_cutoff_store == WhereStore(rand_gait, "pronk", "bound")
        offset_store == WhereStore(done, rand_offset_store, storage.offset)
    IN  /\ prev_frame_robot_time' = current_robot_time
        /\ pronk_initial_offset' = pronk_1
        /\ bound_initial_offset' = bound_1
        /\ initial_offset' = Where(done, rand_initial_offset, offset_1)
        /\ current_phase' = SnapPhase(done, initial_offset', phase_1)
        /\ aliased' = FALSE
        /\ storage' = [offset |-> offset_store,
                       phase |-> WhereStore(done, offset_store, storage.phase),
                       cutoff |-> WhereStore(done, rand_cutoff_store, storage.cutoff)]
        /\ swing_cutoff' = Where(done, rand_swing_cutoff, swing_cutoff)
        /\ cycle_count' = [e \in Env |-> IF done[e] THEN cycle_count[e] + 1
                                                   ELSE cycle_count[e]]
        /\ update_true_phase' = true_phase
        /\ last_op' = Op("update")
        /\ ret' = "None"
        /\ UNCHANGED <<pronk_swing_cutoff, bound_swing_cutoff, config_stepping_frequency,
                       stepping_frequency, first_stance_seen, time_since_reset>>

\* ------------------------------------------------- contact accessors
\* a slip that would put the boundary itself in swing
RawContactStrict(modulated_phase, cutoff) == ~(modulated_phase >= cutoff)

\* torch.where(modulated_phase > swing_cutoff, False, True)
RawContact(modulated_phase, cutoff) == ~(modulated_phase > cutoff)

\* the same slip in the second accessor
RawContactSeStrict(modulated_phase, cutoff) ==
  ~(modulated_phase >= cutoff /\ modulated_phase < TwoPi)

\* torch.where(logical_and(modulated_phase > swing_cutoff,
\*                         modulated_phase < 2 * pi), False, True)
RawContactSe(modulated_phase, cutoff) ==
  ~(modulated_phase > cutoff /\ modulated_phase < TwoPi)

\* a slip that would overwrite the latch with the current contact
LatchOverwritten(seen, raw_contact) == raw_contact

\* a slip that would toggle the latch (logical_xor for logical_or)
LatchToggled(seen, raw_contact) == seen # raw_contact

\* torch.logical_or(first_stance_seen, raw_contact)
LogicalOr(seen, raw_contact) == seen \/ raw_contact

\* a slip that would return the raw contact without the startup guard
ContactReturnUnguarded(seen, raw_contact) == raw_contact

\* torch.where(first_stance_seen, raw_contact, torch.ones_like(raw_contact))
ContactReturn(seen, raw_contact) == IF seen THEN raw_contact ELSE TRUE

desired_contact_state ==
  LET raw_contact == [e \in Env |-> [l \in Leg |->
          RawContact(ModulatedPhase(current_phase[e][l]), swing_cutoff[e][l])]]
  IN  /\ first_stance_seen' = [e \in Env |-> [l \in Leg |->
             LogicalOr(first_stance_seen[e][l], raw_contact[e][l])]]
      /\ ret' = [e \in Env |-> [l \in Leg |->
             ContactReturn(first_stance_seen'[e][l], raw_contact[e][l])]]
      /\ last_op' = Op("desired_contact_state")
      /\ update_true_phase' = NoCall
      /\ UNCHANGED <<catalog, initial_offset, current_phase, aliased, storage,
                     swing_cutoff, stepping_frequency, prev_frame_robot_time,
                     cycle_count, time_since_reset>>

desired_contact_state_se ==
  LET raw_contact == [e \in Env |-> [l \in Leg |->
          RawContactSe(ModulatedPhase(current_phase[e][l]), swing_cutoff[e][l])]]
  IN  /\ first_stance_seen' = [e \in Env |-> [l \in Leg |->
             LogicalOr(first_stance_seen[e][l], raw_contact[e][l])]]
      /\ ret' = [e \in Env |-> [l \in Leg |->
             ContactReturn(first_stance_seen'[e][l], raw_contact[e][l])]]
      /\ last_op' = Op("desired_contact_state_se")
      /\ update_true_phase' = NoCall
      /\ UNCHANGED <<catalog, initial_offset, current_phase, aliased, storage,
                     swing_cutoff, stepping_frequency, prev_frame_robot_time,
                     cycle_count, time_since_reset>>

\* --------------------------------------------------- other accessors
\* A quotient a / b is kept as the pair <<a, b>> of its operands.
\* a slip that would send the cutoff itself down the stance branch
NormalizedPhaseOfInclusive(phase, cutoff) ==
  LET modulated_phase == ModulatedPhase(phase)
  IN  IF modulated_phase <= cutoff
        THEN <<modulated_phase, cutoff>>
        ELSE <<modulated_phase - cutoff, TwoPi - cutoff>>

NormalizedPhaseOf(phase, cutoff) ==
  LET modulated_phase == ModulatedPhase(phase)
  IN  IF modulated_phase < cutoff
        THEN <<modulated_phase, cutoff>>
        ELSE <<modulated_phase - cutoff, TwoPi - cutoff>>

TruePhaseOf(e) == current_phase[e][1] - initial_offset[e][1]

\* An accessor that only reads: it returns value and touches no field.
Accessor(name, value) ==
  /\ last_op' = Op(name)
  /\ ret' = value
  /\ update_true_phase' = NoCall
  /\ UNCHANGED <<catalog, gait_state, time_since_reset>>

normalized_phase ==
  Accessor("normalized_phase",
           [e \in Env |-> [l \in Leg |->
              NormalizedPhaseOf(current_phase[e][l], swing_cutoff[e][l])]])

stance_duration ==
  Accessor("stance_duration",
           [e \in Env |-> [l \in Leg |->
              <<swing_cutoff[e][l], TwoPi * stepping_frequency[e]>>]])

true_phase == Accessor("true_phase", [e \in Env |-> TruePhaseOf(e)])

cycle_progress ==
  Accessor("cycle_progress",
           [e \in Env |-> <<(TruePhaseOf(e) + TwoPi) % TwoPi, TwoPi>>])

get_stepping_frequency == Accessor("stepping_frequency", stepping_frequency)

get_cycle_count == Accessor("cycle_count", cycle_count)

\* stepping_frequency.setter
set_stepping_frequency(new_frequency) ==
  /\ stepping_frequency' = new_frequency
  /\ last_op' = Op("set_stepping_frequency")
  /\ update_true_phase' = NoCall
  /\ ret' = "None"
  /\ UNCHANGED <<catalog, initial_offset, current_phase, aliased, storage,
                 swing_cutoff, prev_frame_robot_time, first_stance_seen,
                 cycle_count, time_since_reset>>

\* ------------------------------------------------------------ the clock
\* robot.time_since_reset: one duration per environment, never decreasing;
\* a simulation step advances every environment by one tick.  Each read
\* hands out a fresh copy, so the generator's _prev_frame_robot_time does
\* not move with the clock.
ClockAdvance ==
  /\ \A e \in Env : time_since_reset[e] < MaxTime
  /\ time_since_reset' = [e \in Env |-> time_since_reset[e] + 1]
  /\ UNCHANGED <<catalog, gait_state, last_op, update_true_phase, ret>>

Next ==
  \/ reset
  \/ \E env_ids \in EnvIds : reset_idx(env_ids)
  \/ update
  \/ desired_contact_state
  \/ desired_contact_state_se
  \/ normalized_phase
  \/ stance_duration
  \/ true_phase
  \/ cycle_progress
  \/ get_stepping_frequency
  \/ get_cycle_count
  \/ \E new_frequency \in [Env -> FreqValues] : set_stepping_frequency(new_frequency)
  \/ ClockAdvance

Spec == Init /\ [][Next]_vars
\* The operations that write a field of the generator, and the clock: the
\* six accessors that only read are left out.  They change no field (C10),
\* so the generator reaches the same states with and without them.
NextWrites ==
  \/ reset
  \/ \E env_ids \in EnvIds : reset_idx(env_ids)
  \/ update
  \/ desired_contact_state
  \/ desired_contact_state_se
  \/ \E new_frequency \in [Env -> FreqValues] : set_stepping_frequency(new_frequency)
  \/ ClockAdvance

SpecWrites == Init /\ [][NextWrites]_vars

\* The control loop on a freshly constructed generator: the clock advances,
\* update() is called, accessors are read; no reset, no frequency assignment.
NextLoop ==
  \/ update
  \/ desired_contact_state
  \/ desired_contact_state_se
  \/ normalized_phase
  \/ stance_duration
  \/ true_phase
  \/ cycle_progress
  \/ get_stepping_frequency
  \/ get_cycle_count
  \/ ClockAdvance

SpecLoop == Init /\ [][NextLoop]_vars

\* The robot restarts the listed environments: their clocks go back to 0.
\* When the generator is not reset with them, the next update() samples a
\* clock below _prev_frame_robot_time.
ClockRegress(env_ids) ==
  /\ \E e \in env_ids : time_since_reset[e] > 0
  /\ time_since_reset' = [e \in Env |-> IF e \in env_ids THEN 0 ELSE time_since_reset[e]]
  /\ UNCHANGED <<catalog, gait_state, last_op, update_true_phase, ret>>

\* The control loop with a clock that may go back.
NextRegress ==
  \/ update
  \/ true_phase
  \/ ClockAdvance
  \/ \E env_ids \in EnvIds : ClockRegress(env_ids)

SpecRegress == Init /\ [][NextRegress]_vars

\* A change of the time origin.  update() reads the clock only through the
\* difference current_robot_time - _prev_frame_robot_time (line 73), so a
\* generator whose previous sample equals the clock behaves the same with
\* both moved back to 0.  This lets a clock bounded by MaxTime stand for one
\* that advances without bound.
ShiftTimeOrigin ==
  /\ prev_frame_robot_time = time_since_reset
  /\ \E e \in Env : time_since_reset[e] > 0
  /\ time_since_reset' = [e \in Env |-> 0]
  /\ prev_frame_robot_time' = [e \in Env |-> 0]
  /\ UNCHANGED <<catalog, initial_offset, current_phase, aliased, storage,
                 swing_cutoff, stepping_frequency, first_stance_seen, cycle_count,
                 last_op, update_true_phase, ret>>

\* The control loop running without end on a generator that is never
\* reset: the clock keeps advancing and update() keeps being called
\* (section 5 of the design: once per tick); the frequency may be retuned,
\* to one positive value for all environments, at any moment.  The run is
\* followed until cycle_count reaches MaxCycles.
NextLive ==
  \/ (update /\ \A e \in Env : cycle_count'[e] <= MaxCycles)
  \/ true_phase
  \/ get_cycle_count
  \/ \E f \in FreqValues : set_stepping_frequency([e \in Env |-> f])
  \/ ClockAdvance
  \/ ShiftTimeOrigin

SpecLive ==
  /\ Init
  /\ [][NextLive]_vars
  /\ WF_vars(update /\ \A e \in Env : cycle_count'[e] <= MaxCycles)
  /\ WF_vars(ClockAdvance)
  /\ WF_vars(ShiftTimeOrigin)

\* The control loop run in episodes, without end: update() keeps being
\* called while the clock keeps advancing, the frequency is retuned and
\* environments are reset at any moment, and the whole generator is reset
\* once an environment has finished MaxCycles cycles.
UpdateInEpisode == update /\ \A e \in Env : cycle_count'[e] <= MaxCycles

ResetAfterEpisode == reset /\ \E e \in Env : cycle_count[e] = MaxCycles

NextEpisodes ==
  \/ UpdateInEpisode
  \/ ResetAfterEpisode
  \/ \E env_ids \in EnvIds : reset_idx(env_ids)
  \/ \E f \in FreqValues : set_stepping_frequency([e \in Env |-> f])
  \/ true_phase
  \/ ClockAdvance
  \/ ShiftTimeOrigin

SpecEpisodes ==
  /\ Init
  /\ [][NextEpisodes]_vars
  /\ WF_vars(UpdateInEpisode)
  /\ WF_vars(ResetAfterEpisode)
  /\ WF_vars(ClockAdvance)
  /\ WF_vars(ShiftTimeOrigin)

\* ---------------------------------------------------------------- claims
\* The step is a call of the operation named.  Every operation writes its
\* name into last_op and leaves the clock alone, and the clock's own step
\* leaves last_op alone, so this holds of the steps of that operation (and
\* of steps that change nothing) and of no other step.
Called(name) == last_op'.name = name /\ time_since_reset' = time_since_reset

UpdateStep == Called("update")
ResetStep == Called("reset")
ResetIdxStep(env_ids) == Called("reset_idx") /\ last_op'.env_ids = env_ids

\* the step resets environment e
ResetOf(e) == ResetStep \/ (Called("reset_idx") /\ e \in last_op'.env_ids)

\* row e of the catalog entry of the variant drawn (TRUE: pronk)
CatalogOffset(pronk, e) == IF pronk THEN pronk_initial_offset[e] ELSE bound_initial_offset[e]
CatalogCutoff(pronk, e) == IF pronk THEN pronk_swing_cutoff[e] ELSE bound_swing_cutoff[e]

\* C1: in every update() call, an environment's cycle_count grows by exactly
\* 1 when the true_phase computed after the integration is above 2*pi and
\* stays as it is otherwise; cycle_count decreases only in a step that
\* resets the environment.
C1_CycleCount ==
  [][ /\ UpdateStep =>
           \A e \in Env :
             cycle_count'[e] = cycle_count[e]
                               + (IF update_true_phase'[e] > TwoPi THEN 1 ELSE 0)
      /\ \A e \in Env : cycle_count'[e] < cycle_count[e] => ResetOf(e)
    ]_vars

\* update() has just taken environment 1 across a cycle boundary
C1_Witness ==
  /\ last_op = Op("update")
  /\ update_true_phase[1] > TwoPi
  /\ cycle_count[1] = 1
  /\ update_true_phase[2] <= TwoPi
  /\ cycle_count[2] = 0

\* C2: after an update() in which an environment crossed a cycle boundary,
\* its current_phase equals its initial_offset on all four legs, and that
\* offset and its swing_cutoff are the catalog entries of one variant.
C2_BoundarySnap ==
  last_op = Op("update") =>
    \A e \in Env :
      update_true_phase[e] > TwoPi =>
        /\ \A l \in Leg : current_phase[e][l] = initial_offset[e][l]
        /\ \E pronk \in BOOLEAN :
             /\ initial_offset[e] = CatalogOffset(pronk, e)
             /\ swing_cutoff[e] = CatalogCutoff(pronk, e)

\* a boundary crossed with an overshoot, into the bound variant
C2_Witness ==
  /\ last_op = Op("update")
  /\ \E e \in Env :
       /\ update_true_phase[e] > TwoPi + 1
       /\ current_phase[e] = bound_initial_offset[e]
       /\ swing_cutoff[e] = bound_swing_cutoff[e]

\* C3: driven from a fresh generator at a constant frequency, the update()
\* that first sees more than one period 1/f elapsed since the reset leaves
\* cycle_count at 1 and current_phase at the (new) initial_offset.
\* (Under SpecLoop the reset happened at clock 0 and the frequency is the
\* configured one, so the time elapsed is time_since_reset.)
C3_OnePeriod ==
  [][ UpdateStep =>
        \A e \in Env :
          ( /\ PhaseStep(stepping_frequency[e], prev_frame_robot_time[e]) <= TwoPi
            /\ PhaseStep(stepping_frequency[e], time_since_reset[e]) > TwoPi )
          => /\ cycle_count'[e] = 1
             /\ current_phase'[e] = initial_offset'[e]
    ]_vars

\* C4: reset_idx(env_ids) gives every listed environment one and the same
\* variant and leaves every field of every other environment unchanged.
C4_ResetIdxFrame ==
  [][ \A env_ids \in EnvIds :
        ResetIdxStep(env_ids) =>
          /\ \E pronk \in BOOLEAN :
               \A e \in env_ids :
                 /\ initial_offset'[e] = CatalogOffset(pronk, e)
                 /\ current_phase'[e] = CatalogOffset(pronk, e)
                 /\ swing_cutoff'[e] = CatalogCutoff(pronk, e)
          /\ \A e \in Env \ env_ids :
               /\ initial_offset'[e] = initial_offset[e]
               /\ current_phase'[e] = current_phase[e]
               /\ swing_cutoff'[e] = swing_cutoff[e]
               /\ stepping_frequency'[e] = stepping_frequency[e]
               /\ prev_frame_robot_time'[e] = prev_frame_robot_time[e]
               /\ first_stance_seen'[e] = first_stance_seen[e]
               /\ cycle_count'[e] = cycle_count[e]
    ]_vars

\* environment 1 was reset alone; environment 2 keeps its finished cycle,
\* its latch and its changed frequency
C4_Witness ==
  /\ last_op = [name |-> "reset_idx", env_ids |-> {1}]
  /\ cycle_count[1] = 0
  /\ cycle_count[2] = 1
  /\ first_stance_seen[2][1]
  /\ stepping_frequency[2] # config_stepping_frequency

\* the state reset() and reset_idx() leave an environment in
ResetState(e) ==
  /\ \A l \in Leg : current_phase[e][l] = initial_offset[e][l]
  /\ \E pronk \in BOOLEAN :
       /\ initial_offset[e] = CatalogOffset(pronk, e)
       /\ swing_cutoff[e] = CatalogCutoff(pronk, e)
  /\ stepping_frequency[e] = config_stepping_frequency
  /\ prev_frame_robot_time[e] = time_since_reset[e]
  /\ \A l \in Leg : ~first_stance_seen[e][l]
  /\ cycle_count[e] = 0
  /\ current_phase[e][1] - initial_offset[e][1] = 0

\* C5: right after reset() every environment, and right after
\* reset_idx(env_ids) every listed environment, is in the reset state:
\* phase equal to the offset of the drawn variant, that variant's cutoff,
\* the default frequency, the clock's value as previous sample time, the
\* latch clear and cycle_count 0.
C5_ResetState ==
  [][ /\ ResetStep => \A e \in Env : ResetState(e)'
      /\ \A env_ids \in EnvIds :
           ResetIdxStep(env_ids) => \A e \in env_ids : ResetState(e)'
    ]_vars

\* reset_idx on an environment that had drifted, latched and been retuned
\* (the other environment shows the state it was reset from)
C5_Witness ==
  /\ last_op = [name |-> "reset_idx", env_ids |-> {2}]
  /\ ResetState(2)
  /\ time_since_reset[2] > 0
  /\ ~aliased
  /\ ~ResetState(1)

\* C6: a first_stance_seen flag that is true stays true in every step that
\* does not reset its environment: update(), the frequency setter and all
\* accessors leave it true, also across a cycle boundary.
C6_LatchMonotone ==
  [][ \A e \in Env : \A l \in Leg :
        (first_stance_seen[e][l] /\ ~first_stance_seen'[e][l]) => ResetOf(e)
    ]_vars

\* a latched leg that a later cycle boundary has put into swing: the
\* accessor reports swing and the latch is still set
C6_Witness ==
  /\ last_op = Op("desired_contact_state")
  /\ \E e \in Env : \E l \in Leg :
       /\ cycle_count[e] = 1
       /\ first_stance_seen[e][l]
       /\ ret[e][l] = FALSE

ContactStep == Called("desired_contact_state") \/ Called("desired_contact_state_se")

\* C7: both contact accessors return True for a leg whose latch is clear
\* and whose phase is inside the swing window; they return False only for
\* a leg whose latch was already set before the read.
C7_StartupGuard ==
  [][ ContactStep =>
        \A e \in Env : \A l \in Leg :
          /\ ( /\ ~first_stance_seen[e][l]
               /\ ModulatedPhase(current_phase[e][l]) > swing_cutoff[e][l] )
             => ret'[e][l] = TRUE
          /\ ret'[e][l] = FALSE => first_stance_seen[e][l]
    ]_vars

\* a leg read inside its swing window before it ever saw stance
C7_Witness ==
  /\ last_op.name \in {"desired_contact_state", "desired_contact_state_se"}
  /\ \E e \in Env : \E l \in Leg :
       /\ ~first_stance_seen[e][l]
       /\ ModulatedPhase(current_phase[e][l]) > swing_cutoff[e][l]
       /\ ret[e][l] = TRUE

\* C8: for a latched leg desired_contact_state returns True exactly when
\* the modulated phase is at most the swing cutoff.
C8_ContactRule ==
  last_op = Op("desired_contact_state") =>
    \A e \in Env : \A l \in Leg :
      first_stance_seen[e][l] =>
        (ret[e][l] <=> ModulatedPhase(current_phase[e][l]) <= swing_cutoff[e][l])

\* one latched leg exactly on a cutoff inside the cycle, reported in
\* stance, and one latched leg above its cutoff, reported in swing
C8_Witness ==
  /\ last_op = Op("desired_contact_state")
  /\ \E e \in Env : \E l \in Leg :
       /\ first_stance_seen[e][l]
       /\ swing_cutoff[e][l] \in 1..(TwoPi - 1)
       /\ ModulatedPhase(current_phase[e][l]) = swing_cutoff[e][l]
       /\ ret[e][l] = TRUE
  /\ \E e \in Env : \E l \in Leg :
       /\ first_stance_seen[e][l]
       /\ ModulatedPhase(current_phase[e][l]) > swing_cutoff[e][l]
       /\ ret[e][l] = FALSE

\* C9: desired_contact_state_se returns True for every leg whose modulated
\* phase is 0, whatever its swing cutoff.
C9_WrapInstant ==
  last_op = Op("desired_contact_state_se") =>
    \A e \in Env : \A l \in Leg :
      ModulatedPhase(current_phase[e][l]) = 0 => ret[e][l] = TRUE

\* legs at the wrap instant: one with cutoff 0 that has turned up to
\* 2*pi, one with cutoff 2*pi
C9_Witness ==
  /\ last_op = Op("desired_contact_state_se")
  /\ \E e \in Env : \E l \in Leg :
       /\ current_phase[e][l] = TwoPi
       /\ swing_cutoff[e][l] = 0
       /\ ret[e][l] = TRUE
  /\ \E e \in Env : \E l \in Leg :
       /\ ModulatedPhase(current_phase[e][l]) = 0
       /\ swing_cutoff[e][l] = TwoPi
       /\ ret[e][l] = TRUE

PureAccessorNames ==
  {"normalized_phase", "stance_duration", "true_phase", "cycle_progress",
   "stepping_frequency", "cycle_count"}

PureAccessorStep ==
  last_op'.name \in PureAccessorNames /\ time_since_reset' = time_since_reset

\* C10: an accessor read again, with no call on the generator in between,
\* returns what it returned before, and a contact accessor read again
\* leaves first_stance_seen as its first read left it; a pure accessor
\* changes no field of the generator.
C10_ReadTwice ==
  [][ /\ (last_op'.name = last_op.name /\ (ContactStep \/ PureAccessorStep))
           => ret' = ret /\ first_stance_seen' = first_stance_seen
      /\ PureAccessorStep => UNCHANGED <<catalog, gait_state>>
    ]_vars

\* a contact accessor has been read, its read has set the latch of a leg
\* in stance and masked a leg in swing, and reading it again is possible
\* and changes nothing
C10_Witness ==
  /\ last_op = Op("desired_contact_state")
  /\ \E e \in Env : \E l, m \in Leg :
       /\ first_stance_seen[e][l] /\ ret[e][l] = TRUE
       /\ ~first_stance_seen[e][m] /\ ret[e][m] = TRUE
  /\ ENABLED desired_contact_state
  /\ ~ENABLED (desired_contact_state /\ vars' # vars)

\* the quotient <<a, b>> lies in [0, 1)
InUnitInterval(q) == q[2] > 0 /\ 0 <= q[1] /\ q[1] < q[2]

\* C11: with the swing ratios configured in [0, 1], every swing_cutoff lies
\* in [0, 2*pi] in every reachable state, and every value normalized_phase
\* returns lies in [0, 1), also for a cutoff of 0, a cutoff of 2*pi and a
\* modulated phase equal to the cutoff.
C11_Ranges ==
  /\ \A e \in Env : \A l \in Leg : swing_cutoff[e][l] \in 0..TwoPi
  /\ last_op = Op("normalized_phase") =>
       \A e \in Env : \A l \in Leg : InUnitInterval(ret[e][l])

\* normalized_phase read with a leg of cutoff 0, a leg of cutoff 2*pi and a
\* leg exactly on a cutoff inside the cycle
C11_Witness ==
  /\ last_op = Op("normalized_phase")
  /\ \E e \in Env : \E l \in Leg :
       swing_cutoff[e][l] = 0 /\ ModulatedPhase(current_phase[e][l]) > 0
  /\ \E e \in Env : \E l \in Leg :
       swing_cutoff[e][l] = TwoPi /\ ModulatedPhase(current_phase[e][l]) > 0
  /\ \E e \in Env : \E l \in Leg :
       /\ swing_cutoff[e][l] \in 1..(TwoPi - 1)
       /\ ModulatedPhase(current_phase[e][l]) = swing_cutoff[e][l]
       /\ ret[e][l][1] = 0

\* C12: in every update() call, the first one after reset() included, an
\* environment whose true_phase after the integration is at most 2*pi
\* keeps its initial_offset, swing_cutoff and cycle_count, and its
\* current_phase is the value before the call plus 2*pi*f*dt on each leg.
C12_UpdateFrame ==
  [][ UpdateStep =>
        \A e \in Env :
          update_true_phase'[e] <= TwoPi =>
            /\ initial_offset'[e] = initial_offset[e]
            /\ swing_cutoff'[e] = swing_cutoff[e]
            /\ cycle_count'[e] = cycle_count[e]
            /\ \A l \in Leg :
                 current_phase'[e][l] =
                   current_phase[e][l]
                   + PhaseStep(stepping_frequency[e],
                               time_since_reset[e] - prev_frame_robot_time[e])
    ]_vars

\* environment e holds the catalog offset and cutoff of one variant
CatalogPair(e) ==
  \E pronk \in BOOLEAN :
    /\ initial_offset[e] = CatalogOffset(pronk, e)
    /\ swing_cutoff[e] = CatalogCutoff(pronk, e)

\* C13: in every reachable state each environment's initial_offset is the
\* catalog offset of one of the two variants and its swing_cutoff the
\* catalog cutoff of the same variant, and the pair changes only in a step
\* that resets the environment or takes it across a cycle boundary.
C13_CatalogPair ==
  /\ [](\A e \in Env : CatalogPair(e))
  /\ [][ \A e \in Env :
           (initial_offset'[e] # initial_offset[e] \/ swing_cutoff'[e] # swing_cutoff[e])
             => (ResetOf(e) \/ (UpdateStep /\ update_true_phase'[e] > TwoPi))
       ]_vars

\* C14: an update() that samples, for an environment, a clock value below
\* prev_frame_robot_time (negative dt) treats dt as zero: the environment's
\* current_phase does not decrease and its true_phase is not negative
\* afterwards.
C14_ClampNegativeDt ==
  [][ UpdateStep =>
        \A e \in Env :
          time_since_reset[e] < prev_frame_robot_time[e] =>
            /\ \A l \in Leg : current_phase'[e][l] >= current_phase[e][l]
            /\ TruePhaseOf(e)' >= 0
    ]_vars

\* C15 as stated: the true_phase accessor can exceed 2*pi between update
\* calls; in the running loop a state comes, after an update() has returned
\* and before the next one, in which some environment's true_phase is
\* strictly above 2*pi.
C15_CanExceed ==
  <>(~aliased /\ \E e \in Env : TruePhaseOf(e) > TwoPi)

\* C15 as amended: true_phase is unwrapped but never above 2*pi: in every
\* reachable state, and so after every update() and before the next one,
\* each environment's true_phase is at most 2*pi, and so is every value the
\* accessor returns; it can be exactly 2*pi.
C15_AtMostTwoPi ==
  /\ \A e \in Env : TruePhaseOf(e) <= TwoPi
  /\ last_op = Op("true_phase") => \A e \in Env : ret[e] <= TwoPi

\* the accessor read after updates have taken an environment to exactly
\* 2*pi, the unwrapped value a wrapped phase would show as 0
C15_Witness ==
  /\ last_op = Op("true_phase")
  /\ ~aliased
  /\ \E e \in Env : ret[e] = TwoPi /\ cycle_count[e] = 0

\* C18: with a strictly positive frequency, a clock that keeps advancing
\* and no reset, update() keeps crossing cycle boundaries: every
\* environment's cycle_count reaches MaxCycles, and as long as it has not,
\* an update() that finds its true_phase above 2*pi is still to come.
C18_BoundaryRecurs ==
  \A e \in Env :
    /\ <>(cycle_count[e] >= MaxCycles)
    /\ [](cycle_count[e] < MaxCycles
           => <>(last_op = Op("update") /\ update_true_phase[e] > TwoPi))

\* the running loop has taken every environment through MaxCycles cycles
\* and moved its time origin on the way
C18_Witness ==
  /\ \A e \in Env : cycle_count[e] = MaxCycles
  /\ last_op = Op("update")
  /\ \A e \in Env : update_true_phase[e] > TwoPi
  /\ \A e \in Env : time_since_reset[e] < MaxCycles

\* C16: the gait catalog (the pronk and bound offset and cutoff tensors
\* built at construction) is never modified, by any sequence of reset,
\* reset_idx, update, frequency assignment and accessor reads, although the
\* state copied from it is written in place by update() and reset_idx().
C16_CatalogFixed ==
  /\ pronk_initial_offset = Stack(gait_config.pronk_initial_offset)
  /\ bound_initial_offset = Stack(gait_config.bound_initial_offset)
  /\ pronk_swing_cutoff = Stack([l \in Leg |-> SwingCutoff(gait_config.pronk_swing_ratio[l])])
  /\ bound_swing_cutoff = Stack([l \in Leg |-> SwingCutoff(gait_config.bound_swing_ratio[l])])

\* both in-place writers have run: the += of update() has moved the
\* offset of environment 2 off the catalog, reset_idx has rewritten the
\* rows of environment 1, and the catalog is as built
C16_Witness ==
  /\ last_op = [name |-> "reset_idx", env_ids |-> {1}]
  /\ ~aliased
  /\ ~CatalogPair(2)
  /\ CatalogPair(1)
  /\ pronk_initial_offset = Stack(gait_config.pronk_initial_offset)
  /\ bound_initial_offset = Stack(gait_config.bound_initial_offset)

\* what a contact accessor with the raw-contact rule Raw leaves in the latch
\* and returns, read in the current state
ContactLatch(Raw(_, _)) ==
  [e \in Env |-> [l \in Leg |->
     LogicalOr(first_stance_seen[e][l],
               Raw(ModulatedPhase(current_phase[e][l]), swing_cutoff[e][l]))]]

ContactValue(Raw(_, _)) ==
  [e \in Env |-> [l \in Leg |->
     ContactReturn(ContactLatch(Raw)[e][l],
                   Raw(ModulatedPhase(current_phase[e][l]), swing_cutoff[e][l]))]]

C19_ZeroDtFrame ==
  [][ UpdateStep =>
        \A e \in Env :
          time_since_reset[e] = prev_frame_robot_time[e] =>
            /\ current_phase'[e] = current_phase[e]
            /\ initial_offset'[e] = initial_offset[e]
            /\ swing_cutoff'[e] = swing_cutoff[e]
            /\ cycle_count'[e] = cycle_count[e]
            /\ first_stance_seen'[e] = first_stance_seen[e]
    ]_vars

\* update() right after reset_idx({1}) at a later tick: environment 1, whose
\* dt was 0, is as reset_idx left it, while environment 2 stands exactly on
\* the boundary 2*pi and did not cross
C19_Witness ==
  /\ last_op = Op("update")
  /\ time_since_reset[1] > 0
  /\ prev_frame_robot_time[1] = time_since_reset[1]
  /\ current_phase[1] = initial_offset[1]
  /\ CatalogPair(1)
  /\ cycle_count[1] = 0
  /\ update_true_phase[1] = 0
  /\ update_true_phase[2] = TwoPi
  /\ cycle_count[2] = 0

\* Called names the steps: a step that Called attributes to an operation
\* is a step of that operation.
CalledIsExact ==
  [][ /\ Called("update") => update
      /\ Called("reset") => reset
      /\ \A env_ids \in EnvIds : ResetIdxStep(env_ids) => reset_idx(env_ids)
      /\ Called("desired_contact_state") => desired_contact_state
      /\ Called("desired_contact_state_se") => desired_contact_state_se
      /\ Called("normalized_phase") => normalized_phase
      /\ Called("stance_duration") => stance_duration
      /\ Called("true_phase") => true_phase
      /\ Called("cycle_progress") => cycle_progress
      /\ Called("stepping_frequency") => get_stepping_frequency
      /\ Called("cycle_count") => get_cycle_count
    ]_vars
====
